---- MODULE Spec2Model ----
(***************************************************************************)
(* Data-preparation logic of the notebook                                  *)
(* "gt_object_det/2b. SageMaker Built-In Algo.ipynb":                      *)
(*   - the class-name lookup in class-descriptions.csv (Taxonomy Resolver) *)
(*   - get_all_subclasses over the label hierarchy                         *)
(*   - the quota/offset collection of example images (Collector)           *)
(*   - the consolidation of the annotation jobs' manifests                 *)
(*   - the shuffle and the training/validation split                       *)
(*   - the deploy and clean-up cells of the endpoints                      *)
(* Each stage has its own specification; the variables of the stages that  *)
(* a specification does not run stay at their idle values.                 *)
(***************************************************************************)
EXTENDS Integers, Sequences, FiniteSets, TLC

VARIABLES
    \* ---- Taxonomy Resolver (class-descriptions lookup cell)
    CLASS_NAMES,             \* the requested class names, a list
    descriptions,            \* class-descriptions.csv: rows <<label_id, display name>>
    class_root_ids,          \* dict: class name -> label_id or None
    classes_lower_notfound,  \* dict: lower-cased name -> name, still unmatched
    rows_scanned,            \* number of rows of the table read so far
    rpc,                     \* "idle" | "scan" | "check" | "done" | "raised"
    error_names,             \* the names listed by the ValueError
    \* ---- Subclass expansion
    hierarchy,               \* labels-hierarchy.json, a tree
    class_id,                \* the root id to expand
    subclasses,              \* the result of get_all_subclasses
    tpc,                     \* "idle" | "call" | "returned"
    \* ---- Quota-bounded example collector
    class_id_sets,           \* dict: class name -> set of label ids
    N_EXAMPLES_PER_CLASS,
    BATCH_OFFSET,
    annotations,             \* annotations-bbox.csv: rows [img_id, cls_id, box]
    class_bbs,               \* dict: class name -> ordered dict img_id -> boxes
    unfilled_class_names,
    rows_read,               \* number of annotation rows read so far
    cpc,                     \* "idle" | "stream" | "done"
    warning,                 \* the classes named by the WARNING print, with counts
    bbs,                     \* merged ordered dict img_id -> boxes
    n_images,
    \* ---- Manifest consolidation
    annotation_jobs,         \* the jobs in dict order: [label_name, manifest, data]
    jobs_loaded,             \* number of iterations of the loop over the jobs done
    combined_manifest_data,  \* the list of records of all the jobs
    kpc,                     \* "idle" | "jobs" | "done" | "raised"
    \* ---- Training/validation split
    train_data,
    validation_data,
    n_samples_training,
    n_samples_validation,
    spc,                     \* "idle" | "ready" | "done"
    \* ---- Endpoints (deploy and clean-up cells)
    predictor_std,           \* None, or the name of the endpoint the predictor refers to
    predictor_hpo,
    endpoints,               \* the endpoints created, in order: [name, config, live]
    delete_calls,            \* the endpoints delete_endpoint was invoked on, in order
    cells_run,               \* the cells executed so far, in order
    raised,                  \* whether the last cell executed ended with an exception
    epc                      \* "idle" | "run"

resolverVars == <<CLASS_NAMES, descriptions, class_root_ids, classes_lower_notfound,
                  rows_scanned, rpc, error_names>>
treeVars == <<hierarchy, class_id, subclasses, tpc>>
collectorVars == <<class_id_sets, N_EXAMPLES_PER_CLASS, BATCH_OFFSET, annotations,
                   class_bbs, unfilled_class_names, rows_read, cpc, warning, bbs,
                   n_images>>
manifestVars == <<annotation_jobs, jobs_loaded, combined_manifest_data, kpc>>
splitVars == <<train_data, validation_data, n_samples_training, n_samples_validation,
               spc>>
endpointVars == <<predictor_std, predictor_hpo, endpoints, delete_calls, cells_run,
                  raised, epc>>
\* The variables of the stages that follow the collector.
laterVars == <<manifestVars, splitVars, endpointVars>>
\* The variables of the resolver, the subclass expansion and the collector.
earlierVars == <<resolverVars, treeVars, collectorVars>>
vars == <<CLASS_NAMES, descriptions, class_root_ids, classes_lower_notfound,
          rows_scanned, rpc, error_names, hierarchy, class_id, subclasses, tpc,
          class_id_sets, N_EXAMPLES_PER_CLASS, BATCH_OFFSET, annotations,
          class_bbs, unfilled_class_names, rows_read, cpc, warning, bbs, n_images,
          annotation_jobs, jobs_loaded, combined_manifest_data, kpc,
          train_data, validation_data, n_samples_training, n_samples_validation,
          spc, predictor_std, predictor_hpo, endpoints, delete_calls, cells_run,
          raised, epc>>

\* Python's None.
None == "None"

Max(S) == CHOOSE x \in S : \A y \in S : y <= x

Range(s) == {s[i] : i \in DOMAIN s}

\* All sequences over S of length lo..hi.
SeqsOf(S, lo, hi) == UNION {[1..n -> S] : n \in lo..hi}

(***************************************************************************)
(* Bounds of the model.                                                    *)
(***************************************************************************)
MaxClasses == 2        \* length of CLASS_NAMES in the resolver
MaxTableRows == 3      \* rows of class-descriptions.csv
MaxNodes == 6          \* nodes of the label hierarchy
MaxRows == 3           \* rows of annotations-bbox.csv
MaxN == 2              \* N_EXAMPLES_PER_CLASS
MaxOffset == 1         \* BATCH_OFFSET
MaxSamples == 5        \* records of the combined manifest given to the split
MaxJobs == 2           \* entries of annotation_jobs
MaxJobRecords == 2     \* lines of one job's output manifest
MaxCells == 4          \* executions of the deploy and clean-up cells

(***************************************************************************)
(* Idle values: what the variables of a stage hold while another stage's   *)
(* specification runs.                                                     *)
(***************************************************************************)
ResolverIdle ==
    /\ descriptions = <<>>
    /\ class_root_ids = <<>>
    /\ classes_lower_notfound = <<>>
    /\ rows_scanned = 0
    /\ rpc = "idle"
    /\ error_names = {}

TreeIdle ==
    /\ hierarchy = <<>>
    /\ class_id = None
    /\ subclasses = {}
    /\ tpc = "idle"

CollectorIdle ==
    /\ class_id_sets = <<>>
    /\ N_EXAMPLES_PER_CLASS = 0
    /\ BATCH_OFFSET = 0
    /\ annotations = <<>>
    /\ class_bbs = <<>>
    /\ unfilled_class_names = {}
    /\ rows_read = 0
    /\ cpc = "idle"
    /\ warning = {}
    /\ bbs = <<>>
    /\ n_images = 0

ManifestIdle ==
    /\ annotation_jobs = <<>>
    /\ jobs_loaded = 0
    /\ combined_manifest_data = <<>>
    /\ kpc = "idle"

SplitIdle ==
    /\ train_data = <<>>
    /\ validation_data = <<>>
    /\ n_samples_training = 0
    /\ n_samples_validation = 0
    /\ spc = "idle"

EndpointIdle ==
    /\ predictor_std = None
    /\ predictor_hpo = None
    /\ endpoints = <<>>
    /\ delete_calls = <<>>
    /\ cells_run = <<>>
    /\ raised = FALSE
    /\ epc = "idle"

LaterIdle == ManifestIdle /\ SplitIdle /\ EndpointIdle

EarlierIdle == CLASS_NAMES = <<>> /\ ResolverIdle /\ TreeIdle /\ CollectorIdle

(***************************************************************************)
(* Taxonomy Resolver.  A name is a sequence of characters, so that         *)
(* str.lower() is computed character by character.                         *)
(***************************************************************************)
LowerChar(c) ==
    CASE c = "A" -> "a"
      [] c = "B" -> "b"
      [] c = "C" -> "c"
      [] c = "D" -> "d"
      [] c = "G" -> "g"
      [] c = "O" -> "o"
      [] c = "T" -> "t"
      [] OTHER -> c

\* str.lower()
Lower(s) == [i \in DOMAIN s |-> LowerChar(s[i])]

\* The class names a user may request.
RequestNames ==
    { <<"C","a","t">>, <<"c","a","t">>, <<"C","A","T">>,
      <<"B","o","o","t">>, <<"D","o","g">> }

\* The display names a row of class-descriptions.csv may hold.
DisplayNames ==
    { <<"C","a","t">>, <<"c","A","T">>, <<"B","o","o","t">>, <<"b","o","o","t">> }

\* The label_id of the i-th row of the table: ids are unique in the source data.
RowLabelIds == <<"/m/01", "/m/02", "/m/03", "/m/04", "/m/05", "/m/06">>

Tables ==
    UNION { { [i \in 1..n |-> <<RowLabelIds[i], names[i]>>] :
                names \in [1..n -> DisplayNames] } : n \in 0..MaxTableRows }

\* { s: None for s in CLASS_NAMES }
InitialRootIds(names) == [s \in Range(names) |-> None]

\* { s.lower(): s for s in CLASS_NAMES }: a later item overwrites an earlier
\* one that has the same key.
InitialNotFound(names) ==
    [k \in {Lower(names[i]) : i \in DOMAIN names} |->
        names[Max({i \in DOMAIN names : Lower(names[i]) = k})]]

\* del d[k]
DictDel(d, k) == [x \in DOMAIN d \ {k} |-> d[x]]

InitResolver ==
    /\ CLASS_NAMES \in SeqsOf(RequestNames, 1, MaxClasses)
    /\ descriptions \in Tables
    /\ class_root_ids = InitialRootIds(CLASS_NAMES)
    /\ classes_lower_notfound = InitialNotFound(CLASS_NAMES)
    /\ rows_scanned = 0
    /\ rpc = "scan"
    /\ error_names = {}
    /\ TreeIdle
    /\ CollectorIdle
    /\ LaterIdle

\* class_root_ids[match] = row[0]
Resolve(ids, match, row) == [ids EXCEPT ![match] = row[1]]

\* The iteration of the loop without  break : the scan goes on after the last
\* outstanding name is matched.
ScanRow_NoBreak ==
    /\ rpc = "scan"
    /\ rows_scanned < Len(descriptions)
    /\ LET row == descriptions[rows_scanned + 1]
           row_class_lower == Lower(row[2])
       IN  /\ rows_scanned' = rows_scanned + 1
           /\ \/ /\ row_class_lower \notin DOMAIN classes_lower_notfound
                 /\ UNCHANGED <<class_root_ids, classes_lower_notfound, rpc>>
              \/ /\ row_class_lower \in DOMAIN classes_lower_notfound
                 /\ LET match == classes_lower_notfound[row_class_lower]
                        left == DictDel(classes_lower_notfound, row_class_lower)
                    IN  /\ class_root_ids' = Resolve(class_root_ids, match, row)
                        /\ classes_lower_notfound' = left
                        /\ UNCHANGED rpc
    /\ UNCHANGED <<CLASS_NAMES, descriptions, error_names>>
    /\ UNCHANGED treeVars
    /\ UNCHANGED collectorVars
    /\ UNCHANGED laterVars

\* One iteration of  for row in csv.reader(f)
ScanRow ==
    /\ rpc = "scan"
    /\ rows_scanned < Len(descriptions)
    /\ LET row == descriptions[rows_scanned + 1]
           row_class_lower == Lower(row[2])
       IN  /\ rows_scanned' = rows_scanned + 1
           /\ \/ /\ row_class_lower \notin DOMAIN classes_lower_notfound
                 /\ UNCHANGED <<class_root_ids, classes_lower_notfound, rpc>>
              \/ /\ row_class_lower \in DOMAIN classes_lower_notfound
                 /\ LET match == classes_lower_notfound[row_class_lower]
                        left == DictDel(classes_lower_notfound, row_class_lower)
                    IN  /\ class_root_ids' = Resolve(class_root_ids, match, row)
                        /\ classes_lower_notfound' = left
                        /\ rpc' = IF DOMAIN left = {} THEN "check" ELSE "scan"
    /\ UNCHANGED <<CLASS_NAMES, descriptions, error_names>>
    /\ UNCHANGED treeVars
    /\ UNCHANGED collectorVars
    /\ UNCHANGED laterVars

\* The table is exhausted before every name is matched.
ScanExhausted ==
    /\ rpc = "scan"
    /\ rows_scanned = Len(descriptions)
    /\ rpc' = "check"
    /\ UNCHANGED <<CLASS_NAMES, descriptions, class_root_ids,
                   classes_lower_notfound, rows_scanned, error_names>>
    /\ UNCHANGED treeVars
    /\ UNCHANGED collectorVars
    /\ UNCHANGED laterVars

\* [v for (k,v) in classes_lower_notfound.items()]
NotFoundNames(d) == {d[k] : k \in DOMAIN d}

\* if len(classes_lower_notfound): raise ValueError(...)
RaiseIfNotFound ==
    /\ rpc = "check"
    /\ \/ /\ DOMAIN classes_lower_notfound # {}
          /\ rpc' = "raised"
          /\ error_names' = NotFoundNames(classes_lower_notfound)
       \/ /\ DOMAIN classes_lower_notfound = {}
          /\ rpc' = "done"
          /\ UNCHANGED error_names
    /\ UNCHANGED <<CLASS_NAMES, descriptions, class_root_ids,
                   classes_lower_notfound, rows_scanned>>
    /\ UNCHANGED treeVars
    /\ UNCHANGED collectorVars
    /\ UNCHANGED laterVars

NextResolver == ScanRow \/ ScanExhausted \/ RaiseIfNotFound

SpecResolver == InitResolver /\ [][NextResolver]_vars
(***************************************************************************)
(* Subclass expansion.  The hierarchy is a tree of nodes 1..n, node 1 the  *)
(* document's root: parent[m] is the node whose "Subcategory" list holds   *)
(* m, LabelName[m] its label id.  A node without children either lacks the *)
(* "Subcategory" key or (emptyLists) carries an empty list.                *)
(***************************************************************************)
TreeLabels == <<"/m/0", "/m/1", "/m/2", "/m/3", "/m/4", "/m/5", "/m/6", "/m/7">>

TreeShapes(n) ==
    {p \in [1..n -> 0..(n - 1)] : p[1] = 0 /\ \A i \in 2..n : p[i] \in 1..(i - 1)}

\* Label assignments, up to renaming of the (opaque) ids: every node carries
\* an id of its own, or all do but one node, which repeats an earlier node's id.
Labelings(n) ==
    {f \in [1..n -> 1..n] :
        \/ \A i \in 1..n : f[i] = i
        \/ \E d \in 2..n :
              /\ f[d] < d
              /\ \A i \in (1..n) \ {d} : f[i] = i}

Hierarchies ==
    UNION { { [parent |-> p, LabelName |-> [i \in 1..n |-> TreeLabels[f[i]]],
               emptyLists |-> e] :
                p \in TreeShapes(n), f \in Labelings(n), e \in BOOLEAN } :
            n \in 1..MaxNodes }

\* "Subcategory" in subtree
HasSubcategory(tree, n) ==
    tree.emptyLists \/ \E m \in DOMAIN tree.parent : tree.parent[m] = n

\* subtree["Subcategory"]
Subcategory(tree, n) ==
    SelectSeq([i \in DOMAIN tree.parent |-> i], LAMBDA m : tree.parent[m] = n)

\* The inner function without its recursion: the node and its children only.
all_subtree_class_ids_ChildrenOnly(tree, n) ==
    {tree.LabelName[n]} \cup {tree.LabelName[m] : m \in Range(Subcategory(tree, n))}

RECURSIVE all_subtree_class_ids(_, _)
all_subtree_class_ids(tree, n) ==
    IF HasSubcategory(tree, n)
    THEN {tree.LabelName[n]} \cup
         UNION {all_subtree_class_ids(tree, s) : s \in Range(Subcategory(tree, n))}
    ELSE {tree.LabelName[n]}

\* The search with  return set([class_id])  in place of the final  return set().
RECURSIVE get_all_subclasses_at_ReturnsId(_, _, _)
get_all_subclasses_at_ReturnsId(cid, tree, n) ==
    IF tree.LabelName[n] = cid
    THEN all_subtree_class_ids(tree, n)
    ELSE IF HasSubcategory(tree, n)
    THEN UNION {get_all_subclasses_at_ReturnsId(cid, tree, s) :
                    s \in Range(Subcategory(tree, n))}
    ELSE {cid}

\* get_all_subclasses(class_id, tree), tree being the subtree at node n
RECURSIVE get_all_subclasses_at(_, _, _)
get_all_subclasses_at(cid, tree, n) ==
    IF tree.LabelName[n] = cid
    THEN all_subtree_class_ids(tree, n)
    ELSE IF HasSubcategory(tree, n)
    THEN UNION {get_all_subclasses_at(cid, tree, s) :
                    s \in Range(Subcategory(tree, n))}
    ELSE {}

get_all_subclasses(cid, tree) == get_all_subclasses_at(cid, tree, 1)

InitSubclasses ==
    /\ hierarchy \in Hierarchies
    /\ class_id \in {None} \cup
                    {TreeLabels[k] : k \in 1..(Len(hierarchy.parent) + 1)}
    /\ subclasses = {}
    /\ tpc = "call"
    /\ CLASS_NAMES = <<>>
    /\ ResolverIdle
    /\ CollectorIdle
    /\ LaterIdle

\* get_all_subclasses(class_root_ids[name], hierarchy)
ExpandSubclasses ==
    /\ tpc = "call"
    /\ subclasses' = get_all_subclasses(class_id, hierarchy)
    /\ tpc' = "returned"
    /\ UNCHANGED <<hierarchy, class_id>>
    /\ UNCHANGED resolverVars
    /\ UNCHANGED collectorVars
    /\ UNCHANGED laterVars

NextSubclasses == ExpandSubclasses

SpecSubclasses == InitSubclasses /\ [][NextSubclasses]_vars
(***************************************************************************)
(* Quota-bounded example collector.  An ordered dict (defaultdict(list))   *)
(* is a sequence of entries [img_id, boxes] in insertion order.  The box   *)
(* of a row is [name, xmin, xmax, ymin, ymax]; the coordinates of row i    *)
(* are written i, so that every box tells the row it comes from.           *)
(***************************************************************************)
Boot == <<"B","o","o","t">>
Cat == <<"C","a","t">>

SKIP_IMAGES == {"251d4c429f6f9c39", "065ad49f98157c8d"}

\* The rows annotations-bbox.csv may hold: <<img_id, cls_id>>.  The label of a
\* row of a skipped image is never looked at.
AnnotationKinds ==
    ({"img1", "img2", "img3"} \X {"/m/1", "/m/2"}) \cup {<<"251d4c429f6f9c39", "/m/1">>}

AnnotationTables ==
    UNION { { [i \in 1..n |-> [img_id |-> k[i][1], cls_id |-> k[i][2], bbox |-> i]] :
                k \in [1..n -> AnnotationKinds] } : n \in 0..MaxRows }

\* The class id sets the expansion may have produced: a single root, a root
\* with a subclass that is another requested class, a root absent from the tree.
ClassIdSetChoices ==
    { [names |-> <<Boot>>, sets |-> (Boot :> b)] : b \in {{"/m/1"}, {"/m/1", "/m/2"}} }
    \cup
    { [names |-> <<Boot, Cat>>, sets |-> (Boot :> b) @@ (Cat :> c)] :
        b \in {{"/m/1"}, {"/m/1", "/m/2"}}, c \in {{"/m/2"}, {}} }

OdKeys(od) == {od[i].img_id : i \in DOMAIN od}

\* list(od.keys())
OdKeySeq(od) == [i \in DOMAIN od |-> od[i].img_id]

\* od[img_id], a defaultdict(list) read
OdGet(od, img) ==
    IF img \in OdKeys(od)
    THEN od[CHOOSE i \in DOMAIN od : od[i].img_id = img].boxes
    ELSE <<>>

\* The assignment with a new key placed in front of the existing keys.
OdPut_Front(od, img, boxes) ==
    IF img \in OdKeys(od)
    THEN [i \in DOMAIN od |->
            IF od[i].img_id = img THEN [img_id |-> img, boxes |-> boxes] ELSE od[i]]
    ELSE <<[img_id |-> img, boxes |-> boxes]>> \o od

\* od[img_id] = boxes: a new key goes last, an old key keeps its place
OdPut(od, img, boxes) ==
    IF img \in OdKeys(od)
    THEN [i \in DOMAIN od |-> IF od[i].img_id = img
                              THEN [img_id |-> img, boxes |-> boxes] ELSE od[i]]
    ELSE Append(od, [img_id |-> img, boxes |-> boxes])

\* n_images_needed = N_EXAMPLES_PER_CLASS * (BATCH_OFFSET + 1)
n_images_needed(n, offset) == n * (offset + 1)

\* The orders in which  for name in curr_unfilled_class_names  may visit a set.
VisitOrders(S) ==
    {o \in [1..Cardinality(S) -> S] : \A i, j \in DOMAIN o : i # j => o[i] # o[j]}

\* The visit with  len(class_bbs[name]) > n_images_needed  as the test.
VisitClass_StrictCapacity(st, name, row, idsets, needed) ==
    IF row.cls_id \in idsets[name]
    THEN LET od == OdPut(st.class_bbs[name], row.img_id,
                         Append(OdGet(st.class_bbs[name], row.img_id),
                                <<name, row.bbox>>))
         IN [class_bbs |-> [st.class_bbs EXCEPT ![name] = od],
             unfilled_class_names |->
                 IF Len(od) > needed THEN st.unfilled_class_names \ {name}
                 ELSE st.unfilled_class_names]
    ELSE st

\* The visit with the new box inserted in front of the image's boxes.
VisitClass_BoxesPrepended(st, name, row, idsets, needed) ==
    IF row.cls_id \in idsets[name]
    THEN LET od == OdPut(st.class_bbs[name], row.img_id,
                         <<<<name, row.bbox>>>> \o OdGet(st.class_bbs[name], row.img_id))
         IN [class_bbs |-> [st.class_bbs EXCEPT ![name] = od],
             unfilled_class_names |->
                 IF Len(od) >= needed THEN st.unfilled_class_names \ {name}
                 ELSE st.unfilled_class_names]
    ELSE st

\* The visit without the test  cls_id in class_id_sets[name].
VisitClass_NoMembershipTest(st, name, row, idsets, needed) ==
    LET od == OdPut(st.class_bbs[name], row.img_id,
                    Append(OdGet(st.class_bbs[name], row.img_id), <<name, row.bbox>>))
    IN [class_bbs |-> [st.class_bbs EXCEPT ![name] = od],
        unfilled_class_names |->
            IF Len(od) >= needed THEN st.unfilled_class_names \ {name}
            ELSE st.unfilled_class_names]

\* The visit that empties unfilled_class_names when its class reaches capacity.
VisitClass_FillsAll(st, name, row, idsets, needed) ==
    IF row.cls_id \in idsets[name]
    THEN LET od == OdPut(st.class_bbs[name], row.img_id,
                         Append(OdGet(st.class_bbs[name], row.img_id),
                                <<name, row.bbox>>))
         IN [class_bbs |-> [st.class_bbs EXCEPT ![name] = od],
             unfilled_class_names |->
                 IF Len(od) >= needed THEN {} ELSE st.unfilled_class_names]
    ELSE st

\* The body of  for name in curr_unfilled_class_names  for one name;
\* st = [class_bbs, unfilled_class_names].
VisitClass(st, name, row, idsets, needed) ==
    IF row.cls_id \in idsets[name]
    THEN LET od == OdPut(st.class_bbs[name], row.img_id,
                         Append(OdGet(st.class_bbs[name], row.img_id),
                                <<name, row.bbox>>))
         IN  [class_bbs |-> [st.class_bbs EXCEPT ![name] = od],
              unfilled_class_names |->
                 IF Len(od) >= needed
                 THEN st.unfilled_class_names \ {name}
                 ELSE st.unfilled_class_names]
    ELSE st

\* The inner loop leaving at the first class the row matches.
RECURSIVE VisitClasses_FirstMatchOnly(_, _, _, _, _)
VisitClasses_FirstMatchOnly(st, order, row, idsets, needed) ==
    IF order = <<>> THEN st
    ELSE IF row.cls_id \in idsets[Head(order)]
         THEN VisitClass(st, Head(order), row, idsets, needed)
         ELSE VisitClasses_FirstMatchOnly(st, Tail(order), row, idsets, needed)

RECURSIVE VisitClasses(_, _, _, _, _)
VisitClasses(st, order, row, idsets, needed) ==
    IF order = <<>> THEN st
    ELSE VisitClasses(VisitClass(st, Head(order), row, idsets, needed),
                      Tail(order), row, idsets, needed)

\* The loop body without  if (img_id in SKIP_IMAGES): continue
ProcessRow_NoSkip(st, row, order, idsets, needed) ==
    VisitClasses(st, order, row, idsets, needed)

\* The loop body visiting every class instead of the unfilled ones.
ProcessRow_AllClasses(st, row, order, idsets, needed) ==
    IF row.img_id \in SKIP_IMAGES
    THEN st
    ELSE VisitClasses(st, CHOOSE o \in VisitOrders(DOMAIN idsets) : TRUE,
                      row, idsets, needed)

\* The loop body that goes on adding the boxes of the images a full class holds.
ProcessRow_HeldImagesGrow(st, row, order, idsets, needed) ==
    IF row.img_id \in SKIP_IMAGES
    THEN st
    ELSE LET visited == VisitClasses(st, order, row, idsets, needed)
         IN  [visited EXCEPT !.class_bbs =
                 [name \in DOMAIN visited.class_bbs |->
                     LET od == visited.class_bbs[name]
                     IN  IF /\ name \notin st.unfilled_class_names
                            /\ row.cls_id \in idsets[name]
                            /\ row.img_id \in OdKeys(od)
                         THEN OdPut(od, row.img_id,
                                    Append(OdGet(od, row.img_id), <<name, row.bbox>>))
                         ELSE od]]

\* One iteration of  for row in csv.reader(f)  of the collection loop.
ProcessRow(st, row, order, idsets, needed) ==
    IF row.img_id \in SKIP_IMAGES
    THEN st
    ELSE VisitClasses(st, order, row, idsets, needed)

\* l[-n:]
LastN(l, n) ==
    IF n = 0 \/ n >= Len(l) THEN l ELSE SubSeq(l, Len(l) - n + 1, Len(l))

\* The merge with  bbs[img_id] = boxes : a later class replaces an earlier one.
RECURSIVE MergeBatch_Overwrites(_, _)
MergeBatch_Overwrites(merged, batch) ==
    IF batch = <<>> THEN merged
    ELSE MergeBatch_Overwrites(OdPut(merged, Head(batch).img_id, Head(batch).boxes),
                               Tail(batch))

\* for (img_id, boxes) in class_bbs_batch: bbs[img_id] = bbs[img_id] + boxes
RECURSIVE MergeBatch(_, _)
MergeBatch(merged, batch) ==
    IF batch = <<>> THEN merged
    ELSE MergeBatch(OdPut(merged, Head(batch).img_id,
                          OdGet(merged, Head(batch).img_id) \o Head(batch).boxes),
                    Tail(batch))

\* for class_name in class_bbs: ... over the classes names[i..]
RECURSIVE MergeClasses(_, _, _, _)
MergeClasses(merged, cbs, names, n) ==
    IF names = <<>> THEN merged
    ELSE MergeClasses(MergeBatch(merged, LastN(cbs[Head(names)], n)),
                      cbs, Tail(names), n)

\* class_bbs[class_name] = defaultdict(list, class_bbs_batch)
TrimClasses(cbs, n) == [name \in DOMAIN cbs |-> LastN(cbs[name], n)]

\* The warning naming every class, filled or not.
WarningLines_AllClasses(cbs, unfilled) == {<<name, Len(cbs[name])>> : name \in DOMAIN cbs}

\* The warning with  len(class_bbs)  in place of  len(class_bbs[name]).
WarningLines_CountsClasses(cbs, unfilled) ==
    {<<name, Cardinality(DOMAIN cbs)>> : name \in unfilled}

\* The classes the WARNING print names, each with the count it prints.
WarningLines(cbs, unfilled) == {<<name, Len(cbs[name])>> : name \in unfilled}

InitCollector ==
    /\ \E c \in ClassIdSetChoices :
          /\ CLASS_NAMES = c.names
          /\ class_id_sets = c.sets
    /\ N_EXAMPLES_PER_CLASS \in 0..MaxN
    /\ BATCH_OFFSET \in 0..MaxOffset
    /\ annotations \in AnnotationTables
    /\ class_bbs = [name \in DOMAIN class_id_sets |-> <<>>]
    /\ unfilled_class_names = Range(CLASS_NAMES)
    /\ rows_read = 0
    /\ cpc = "stream"
    /\ warning = {}
    /\ bbs = <<>>
    /\ n_images = 0
    /\ ResolverIdle
    /\ TreeIdle
    /\ LaterIdle

ReadAnnotationRow ==
    /\ cpc = "stream"
    /\ rows_read < Len(annotations)
    /\ \E order \in VisitOrders(unfilled_class_names) :
          LET st == ProcessRow([class_bbs |-> class_bbs,
                                unfilled_class_names |-> unfilled_class_names],
                               annotations[rows_read + 1], order, class_id_sets,
                               n_images_needed(N_EXAMPLES_PER_CLASS, BATCH_OFFSET))
          IN  /\ class_bbs' = st.class_bbs
              /\ unfilled_class_names' = st.unfilled_class_names
    /\ rows_read' = rows_read + 1
    /\ UNCHANGED <<CLASS_NAMES, class_id_sets, N_EXAMPLES_PER_CLASS, BATCH_OFFSET,
                   annotations, cpc, warning, bbs, n_images>>
    /\ UNCHANGED <<descriptions, class_root_ids, classes_lower_notfound,
                   rows_scanned, rpc, error_names>>
    /\ UNCHANGED treeVars
    /\ UNCHANGED laterVars

\* The code after the loop: the warning, the trimming and the merge.
PostProcess ==
    /\ cpc = "stream"
    /\ rows_read = Len(annotations)
    /\ warning' = WarningLines(class_bbs, unfilled_class_names)
    /\ class_bbs' = TrimClasses(class_bbs, N_EXAMPLES_PER_CLASS)
    /\ bbs' = MergeClasses(<<>>, class_bbs, CLASS_NAMES, N_EXAMPLES_PER_CLASS)
    /\ n_images' = Len(bbs')
    /\ cpc' = "done"
    /\ UNCHANGED <<CLASS_NAMES, class_id_sets, N_EXAMPLES_PER_CLASS, BATCH_OFFSET,
                   annotations, unfilled_class_names, rows_read>>
    /\ UNCHANGED <<descriptions, class_root_ids, classes_lower_notfound,
                   rows_scanned, rpc, error_names>>
    /\ UNCHANGED treeVars
    /\ UNCHANGED laterVars

\* A whole run of the collector cell on the given inputs, the unfilled classes
\* visited in the order of names: the merged mapping bbs it ends with.
RECURSIVE StreamRows(_, _, _, _, _)
StreamRows(st, rows, names, idsets, needed) ==
    IF rows = <<>> THEN st
    ELSE StreamRows(ProcessRow(st, Head(rows),
                               SelectSeq(names, LAMBDA c : c \in st.unfilled_class_names),
                               idsets, needed),
                    Tail(rows), names, idsets, needed)

CollectorRun(names, idsets, n, offset, rows) ==
    MergeClasses(<<>>,
                 StreamRows([class_bbs |-> [c \in DOMAIN idsets |-> <<>>],
                             unfilled_class_names |-> Range(names)],
                            rows, names, idsets, n_images_needed(n, offset)).class_bbs,
                 names, n)

NextCollector == ReadAnnotationRow \/ PostProcess

SpecCollector == InitCollector /\ [][NextCollector]_vars
(***************************************************************************)
(* Consolidation of the annotation jobs' output manifests.  A record of a  *)
(* manifest is a dict, here a function from its keys; annotation_jobs is   *)
(* a dict in insertion order, here the sequence of its values.             *)
(***************************************************************************)
LabelNames == {"labels", "boots-and-cats-batch-0"}

\* The key under which a job stores the metadata of its label attribute.
MetaKey(label_name) ==
    IF label_name = "labels" THEN "labels-metadata"
    ELSE "boots-and-cats-batch-0-metadata"

\* Line i of the output manifest of the job at position j: the image, the
\* metadata and, unless the image could not be annotated, the annotation
\* under the job's label name.
ManifestLine(j, i, label_name, annotated) ==
    [k \in {"source-ref", MetaKey(label_name)}
             \cup (IF annotated THEN {label_name} ELSE {}) |->
        IF k = "source-ref" THEN <<"s3", j, i>>
        ELSE IF k = label_name THEN <<"annotation", j, i>>
        ELSE <<"metadata", j, i>>]

Manifests(j, label_name) ==
    UNION { { [i \in 1..n |-> ManifestLine(j, i, label_name, annotated[i])] :
                annotated \in [1..n -> BOOLEAN] } : n \in 0..MaxJobRecords }

JobChoices(j) ==
    UNION { { [label_name |-> l, manifest |-> m, data |-> None] :
                m \in Manifests(j, l) } : l \in LabelNames }

\* The dicts of n jobs.
RECURSIVE JobLists(_)
JobLists(n) ==
    IF n = 0 THEN {<<>>}
    ELSE UNION { {Append(jobs, job) : job \in JobChoices(n)} : jobs \in JobLists(n - 1) }

InitConsolidate ==
    /\ \E n \in 1..MaxJobs : annotation_jobs \in JobLists(n)
    /\ jobs_loaded = 0
    /\ combined_manifest_data = <<>>
    /\ kpc = "jobs"
    /\ SplitIdle
    /\ EarlierIdle
    /\ EndpointIdle

\* d[k] = v
DictSet(d, k, v) == [x \in DOMAIN d \cup {k} |-> IF x = k THEN v ELSE d[x]]

\* The renaming that copies the label attribute and leaves the original key.
Standardize_KeepsKey(datum, label_name) == DictSet(datum, "labels", datum[label_name])

\* datum["labels"] = datum.pop(label_name), for a datum that has the key
Standardize(datum, label_name) ==
    DictSet(DictDel(datum, label_name), "labels", datum[label_name])

\* One iteration of  for job_id in annotation_jobs
LoadJob ==
    /\ kpc = "jobs"
    /\ jobs_loaded < Len(annotation_jobs)
    /\ LET job_id == jobs_loaded + 1
           label_name == annotation_jobs[job_id].label_name
           data == annotation_jobs[job_id].manifest
       IN  \/ \* datum.pop raises KeyError: the cell ends
              /\ \E i \in DOMAIN data : label_name \notin DOMAIN data[i]
              /\ kpc' = "raised"
              /\ UNCHANGED <<annotation_jobs, jobs_loaded>>
           \/ /\ \A i \in DOMAIN data : label_name \in DOMAIN data[i]
              /\ annotation_jobs' =
                    [annotation_jobs EXCEPT ![job_id].data =
                        [i \in DOMAIN data |-> Standardize(data[i], label_name)]]
              /\ jobs_loaded' = jobs_loaded + 1
              /\ UNCHANGED kpc
    /\ UNCHANGED combined_manifest_data
    /\ UNCHANGED splitVars
    /\ UNCHANGED earlierVars
    /\ UNCHANGED endpointVars

\* [datum for job_id in annotation_jobs for datum in annotation_jobs[job_id]["data"]]
RECURSIVE CombinedData(_)
CombinedData(jobs) ==
    IF jobs = <<>> THEN <<>> ELSE Head(jobs).data \o CombinedData(Tail(jobs))

\* The code after the loop; its last line, combined_manifest_data[0], raises
\* IndexError on an empty list.
CombineManifests ==
    /\ kpc = "jobs"
    /\ jobs_loaded = Len(annotation_jobs)
    /\ combined_manifest_data' = CombinedData(annotation_jobs)
    /\ kpc' = IF combined_manifest_data' = <<>> THEN "raised" ELSE "done"
    /\ UNCHANGED <<annotation_jobs, jobs_loaded>>
    /\ UNCHANGED splitVars
    /\ UNCHANGED earlierVars
    /\ UNCHANGED endpointVars

NextConsolidate == LoadJob \/ CombineManifests

SpecConsolidate == InitConsolidate /\ [][NextConsolidate]_vars

(***************************************************************************)
(* Shuffle and training/validation split of the combined manifest.         *)
(***************************************************************************)
ManifestImages == {"img1", "img2", "img3"}

\* A record of the combined manifest: the dict with the standard attributes
\* "source-ref" and "labels".  Two lines of the manifests may hold equal
\* records.
StandardRecord(img) ==
    [k \in {"source-ref", "labels"} |->
        IF k = "source-ref" THEN <<"s3", img>> ELSE <<"annotation", img>>]

InitSplit ==
    /\ combined_manifest_data \in
          SeqsOf({StandardRecord(img) : img \in ManifestImages}, 0, MaxSamples)
    /\ annotation_jobs = <<>>
    /\ jobs_loaded = 0
    /\ kpc = "idle"
    /\ train_data = <<>>
    /\ validation_data = <<>>
    /\ n_samples_training = 0
    /\ n_samples_validation = 0
    /\ spc = "ready"
    /\ EarlierIdle
    /\ EndpointIdle

\* A draw of items of l with replacement, as many as l has.
Shuffles_WithReplacement(l) ==
    {[i \in DOMAIN l |-> l[p[i]]] : p \in [DOMAIN l -> DOMAIN l]}

\* np.random.shuffle(l): the orders the list can be left in.
Shuffles(l) == {[i \in DOMAIN l |-> l[p[i]]] : p \in Permutations(DOMAIN l)}

\* Python's round(num / den) for num >= 0, den > 0: to the nearest integer,
\* a tie to the even one.
round(num, den) ==
    LET q == num \div den
        twice == 2 * (num % den)
    IN  IF twice < den THEN q
        ELSE IF twice > den THEN q + 1
        ELSE IF q % 2 = 0 THEN q ELSE q + 1

\* round(n_samples_total*0.8).  The product is a float; it is never closer
\* than 0.1 to a tie, so the float error cannot change the result.
train_test_split_index(n_samples_total) == round(8 * n_samples_total, 10)

\* l[:i] and l[i:] for 0 <= i.
SliceTo(l, i) == SubSeq(l, 1, IF i <= Len(l) THEN i ELSE Len(l))
SliceFrom(l, i) == SubSeq(l, i + 1, Len(l))

\* The whole split cell: shuffle in place, split, count.
SplitCell ==
    /\ spc = "ready"
    /\ \E shuffled \in Shuffles(combined_manifest_data) :
          LET n_samples_total == Len(shuffled)
              index == train_test_split_index(n_samples_total)
          IN  /\ combined_manifest_data' = shuffled
              /\ train_data' = SliceTo(shuffled, index)
              /\ validation_data' = SliceFrom(shuffled, index)
    /\ n_samples_training' = Len(train_data')
    /\ n_samples_validation' = Len(validation_data')
    /\ spc' = "done"
    /\ UNCHANGED <<annotation_jobs, jobs_loaded, kpc>>
    /\ UNCHANGED earlierVars
    /\ UNCHANGED endpointVars

NextSplit == SplitCell

SpecSplit == InitSplit /\ [][NextSplit]_vars

(***************************************************************************)
(* The endpoints: the deploy cell and the clean-up cell, executed in any   *)
(* order after the setup cell.  A predictor object is truthy; it refers to *)
(* its endpoint by name.                                                   *)
(***************************************************************************)
InitEndpoints ==
    /\ predictor_std = None
    /\ predictor_hpo = None
    /\ endpoints = <<>>
    /\ delete_calls = <<>>
    /\ cells_run = <<>>
    /\ raised = FALSE
    /\ epc = "run"
    /\ ManifestIdle
    /\ SplitIdle
    /\ EarlierIdle

\* The variables the cells work on, as a record.
EndpointState ==
    [predictor_std |-> predictor_std, predictor_hpo |-> predictor_hpo,
     endpoints |-> endpoints, delete_calls |-> delete_calls, raised |-> FALSE]

EndpointIndex(eps, name) == CHOOSE i \in DOMAIN eps : eps[i].name = name

\* predictor.delete_endpoint() for the predictor of the endpoint name: the
\* service deletes a live endpoint and answers with an error, raised as an
\* exception, for an endpoint that does not exist any more.
delete_endpoint(st, name) ==
    LET i == EndpointIndex(st.endpoints, name)
    IN  IF st.endpoints[i].live
        THEN [st EXCEPT !.endpoints[i].live = FALSE,
                        !.delete_calls = Append(@, name)]
        ELSE [st EXCEPT !.delete_calls = Append(@, name), !.raised = TRUE]

\* tuner.deploy(...) / estimator.deploy(...): a new endpoint; its name.
NewEndpointName(eps) == ToString(Len(eps) + 1)

deploy(st, config) ==
    [st EXCEPT !.endpoints =
        Append(@, [name |-> NewEndpointName(st.endpoints), config |-> config,
                   live |-> TRUE])]

\* The deploy cell without the deletion of the previous endpoint.
DeployCell_NoDelete(st, WITH_HPO) ==
    IF WITH_HPO
    THEN [deploy(st, "hpo") EXCEPT !.predictor_hpo = NewEndpointName(st.endpoints)]
    ELSE [deploy(st, "std") EXCEPT !.predictor_std = NewEndpointName(st.endpoints)]

\* The deploy cell.
DeployCell(st, WITH_HPO) ==
    IF WITH_HPO
    THEN LET deleted == IF st.predictor_hpo # None
                        THEN delete_endpoint(st, st.predictor_hpo) ELSE st
         IN  IF deleted.raised THEN deleted
             ELSE [deploy(deleted, "hpo") EXCEPT
                      !.predictor_hpo = NewEndpointName(deleted.endpoints)]
    ELSE LET deleted == IF st.predictor_std # None
                        THEN delete_endpoint(st, st.predictor_std) ELSE st
         IN  IF deleted.raised THEN deleted
             ELSE [deploy(deleted, "std") EXCEPT
                      !.predictor_std = NewEndpointName(deleted.endpoints)]

\* The clean-up cell without its second statement.
CleanUpCell_HpoOnly(st) ==
    IF st.predictor_hpo # None THEN delete_endpoint(st, st.predictor_hpo) ELSE st

\* The clean-up cell.
CleanUpCell(st) ==
    LET first == IF st.predictor_hpo # None
                 THEN delete_endpoint(st, st.predictor_hpo) ELSE st
    IN  IF first.raised THEN first
        ELSE IF first.predictor_std # None
             THEN delete_endpoint(first, first.predictor_std) ELSE first

\* The state a cell leaves.
CellLeaves(st, cell) ==
    /\ predictor_std' = st.predictor_std
    /\ predictor_hpo' = st.predictor_hpo
    /\ endpoints' = st.endpoints
    /\ delete_calls' = st.delete_calls
    /\ raised' = st.raised
    /\ cells_run' = Append(cells_run, cell)
    /\ UNCHANGED epc
    /\ UNCHANGED manifestVars
    /\ UNCHANGED splitVars
    /\ UNCHANGED earlierVars

\* One execution of the deploy cell, with WITH_HPO as the user set it.
Deploy ==
    /\ epc = "run"
    /\ Len(cells_run) < MaxCells
    /\ \E WITH_HPO \in BOOLEAN :
          CellLeaves(DeployCell(EndpointState, WITH_HPO),
                     IF WITH_HPO THEN "deploy_hpo" ELSE "deploy_std")

\* One execution of the clean-up cell.
CleanUp ==
    /\ epc = "run"
    /\ Len(cells_run) < MaxCells
    /\ CellLeaves(CleanUpCell(EndpointState), "clean_up")

NextEndpoints == Deploy \/ CleanUp

SpecEndpoints == InitEndpoints /\ [][NextEndpoints]_vars

(***************************************************************************)
(* The stages as one system: a run is a run of one of the stages.          *)
(***************************************************************************)
Init ==
    \/ InitResolver
    \/ InitSubclasses
    \/ InitCollector
    \/ InitConsolidate
    \/ InitSplit
    \/ InitEndpoints

Next ==
    \/ NextResolver
    \/ NextSubclasses
    \/ NextCollector
    \/ NextConsolidate
    \/ NextSplit
    \/ NextEndpoints

Spec == Init /\ [][Next]_vars

(***************************************************************************)
(* Properties of the Taxonomy Resolver.                                    *)
(***************************************************************************)
\* The rows of the table whose display name equals name ignoring case.
MatchingTableRows(name) ==
    {i \in DOMAIN descriptions : Lower(descriptions[i][2]) = Lower(name)}

ResolverEnded == rpc \in {"done", "raised"}

\* C1: when every requested name has exactly one case-insensitive match in the
\* table, the resolver ends without error and every requested name, as the
\* user wrote it, is mapped to the label_id of its matching row.
C1_ResolverSuccess ==
    (ResolverEnded /\ \A s \in Range(CLASS_NAMES) : Cardinality(MatchingTableRows(s)) = 1)
    => /\ rpc = "done"
       /\ DOMAIN class_root_ids = Range(CLASS_NAMES)
       /\ \A s \in Range(CLASS_NAMES) :
             \E i \in MatchingTableRows(s) : class_root_ids[s] = descriptions[i][1]

\* C2: when the resolver ends with a requested name unmatched, it has raised,
\* and the names the error lists are exactly the requested names that have no
\* case-insensitive match in the table.
C2_ResolverFailure ==
    LET unmatched == {s \in Range(CLASS_NAMES) : MatchingTableRows(s) = {}}
    IN  ResolverEnded =>
            /\ (unmatched # {} => rpc = "raised")
            /\ (rpc = "raised" => error_names = unmatched)

\* C1 and C2 fail only when two requested names differ by letter case alone:
\* each holds of every run whose requested names are distinct ignoring case.
CaseDistinctNames ==
    \A i, j \in DOMAIN CLASS_NAMES :
        Lower(CLASS_NAMES[i]) = Lower(CLASS_NAMES[j]) => CLASS_NAMES[i] = CLASS_NAMES[j]

C1_HoldsForCaseDistinctNames == CaseDistinctNames => C1_ResolverSuccess

C2_HoldsForCaseDistinctNames == CaseDistinctNames => C2_ResolverFailure

(***************************************************************************)
(* Properties of the subclass expansion.                                   *)
(***************************************************************************)
TreeNodes == DOMAIN hierarchy.parent

\* m lies in the subtree rooted at a: a is reached from m by parent links.
RECURSIVE InSubtree(_, _)
InSubtree(a, m) ==
    \/ m = a
    \/ /\ hierarchy.parent[m] # 0
       /\ InSubtree(a, hierarchy.parent[m])

UniqueLabelIds ==
    \A a, b \in TreeNodes : hierarchy.LabelName[a] = hierarchy.LabelName[b] => a = b

IsLeaf(a) == \A m \in TreeNodes : hierarchy.parent[m] # a

\* C3: in a tree with unique label ids that holds class_id at node a, the result
\* is exactly the ids of the subtree rooted at a: every descendant at every
\* depth, no id of a node outside the subtree, and {class_id} for a leaf.
C3_SubclassesAreSubtree ==
    (tpc = "returned" /\ UniqueLabelIds)
    => \A a \in TreeNodes :
          hierarchy.LabelName[a] = class_id
          => /\ subclasses = {hierarchy.LabelName[m] : m \in {x \in TreeNodes : InSubtree(a, x)}}
             /\ \A m \in TreeNodes :
                   ~InSubtree(a, m) => hierarchy.LabelName[m] \notin subclasses
             /\ IsLeaf(a) => subclasses = {class_id}

\* A call returned for a node at depth 2 that has a child and a cousin: the
\* child's id is in the result, the ids of the cousin, of the parent and of
\* the parent's sibling are not.
C3_Witness ==
    /\ tpc = "returned"
    /\ UniqueLabelIds
    /\ \E a, child, cousin \in TreeNodes :
          /\ hierarchy.LabelName[a] = class_id
          /\ hierarchy.parent[a] # 0
          /\ hierarchy.parent[child] = a
          /\ hierarchy.parent[cousin] # 0
          /\ hierarchy.parent[cousin] # hierarchy.parent[a]
          /\ hierarchy.parent[hierarchy.parent[cousin]] =
                hierarchy.parent[hierarchy.parent[a]]
          /\ hierarchy.LabelName[child] \in subclasses
          /\ hierarchy.LabelName[cousin] \notin subclasses
          /\ hierarchy.LabelName[hierarchy.parent[a]] \notin subclasses
          /\ hierarchy.LabelName[hierarchy.parent[cousin]] \notin subclasses

\* C4: when no node of the tree carries class_id, the call returns (it raises
\* nothing) and its result is the empty set.
C4_AbsentRootGivesEmptySet ==
    (tpc # "idle" /\ \A m \in TreeNodes : hierarchy.LabelName[m] # class_id)
    => (ENABLED ExpandSubclasses \/ tpc = "returned")
       /\ (tpc = "returned" => subclasses = {})

\* A call returned for an id that is in no node of a tree of depth 2.
C4_Witness ==
    /\ tpc = "returned"
    /\ class_id # None
    /\ \A m \in TreeNodes : hierarchy.LabelName[m] # class_id
    /\ \E m \in TreeNodes : hierarchy.parent[m] \notin {0, 1}
    /\ subclasses = {}
(***************************************************************************)
(* Properties of the collector.                                            *)
(***************************************************************************)
\* Row i is a row of a non-excluded image whose label is in the id set of name.
RowMatches(i, name) ==
    /\ annotations[i].img_id \notin SKIP_IMAGES
    /\ annotations[i].cls_id \in class_id_sets[name]

\* The rows that bring name a new image: the first matching row of each image.
FirstMatchRows(name) ==
    {i \in DOMAIN annotations :
        /\ RowMatches(i, name)
        /\ \A j \in 1..(i - 1) :
              RowMatches(j, name) => annotations[j].img_id # annotations[i].img_id}

SortedRows(S) ==
    CHOOSE q \in [1..Cardinality(S) -> S] : \A i, j \in 1..Cardinality(S) : i < j => q[i] < q[j]

\* The distinct non-excluded images of the stream that match name, in file order.
MatchingImages(name) ==
    [k \in 1..Cardinality(FirstMatchRows(name)) |->
        annotations[SortedRows(FirstMatchRows(name))[k]].img_id]

\* The last m items of l, for m <= Len(l).
TakeLast(l, m) == SubSeq(l, Len(l) - m + 1, Len(l))

Min(a, b) == IF a <= b THEN a ELSE b

\* The images of the merged output that carry a box tagged name.
ImagesOfClass(merged, name) ==
    {img \in OdKeys(merged) :
        \E k \in DOMAIN OdGet(merged, img) : OdGet(merged, img)[k][1] = name}

\* C5: no excluded image id is ever a key of a per-class group or of the
\* merged output, whatever its rows match.
C5_ExcludedImagesNeverKept ==
    /\ \A name \in DOMAIN class_bbs : OdKeys(class_bbs[name]) \cap SKIP_IMAGES = {}
    /\ OdKeys(bbs) \cap SKIP_IMAGES = {}

\* A finished run with a non-empty output whose first row is a row of an
\* excluded image with the label of a class that still wanted images.
C5_Witness ==
    /\ cpc = "done"
    /\ N_EXAMPLES_PER_CLASS >= 1
    /\ bbs # <<>>
    /\ annotations[1].img_id \in SKIP_IMAGES
    /\ annotations[1].cls_id \in class_id_sets[Boot]

\* C6: in the final output every class has at most N images: its kept group
\* has at most N image ids and its boxes lie on at most N images of the
\* merged mapping.
C6_AtMostNImagesPerClass ==
    cpc = "done" =>
        \A name \in DOMAIN class_bbs :
            /\ Cardinality(OdKeys(class_bbs[name])) <= N_EXAMPLES_PER_CLASS
            /\ Cardinality(ImagesOfClass(bbs, name)) <= N_EXAMPLES_PER_CLASS

\* C7: with offset 0, on a stream with at least N distinct matching
\* non-excluded images for every class, every class keeps exactly N images.
C7_QuotaMet ==
    (/\ cpc = "done"
     /\ BATCH_OFFSET = 0
     /\ \A name \in DOMAIN class_bbs : Len(MatchingImages(name)) >= N_EXAMPLES_PER_CLASS)
    => \A name \in DOMAIN class_bbs : Len(class_bbs[name]) = N_EXAMPLES_PER_CLASS

\* C8: the trimming keeps, of what a class accumulated, the last
\* min(N, accumulated) image groups in insertion order; with offset k and at
\* least N*(k+1) matching images, these are the matching images numbered
\* k*N+1 .. (k+1)*N in file order.
C8_SuffixTrimming ==
    [][(cpc = "stream" /\ cpc' = "done") =>
        \A name \in DOMAIN class_bbs :
            LET acc == class_bbs[name]
                n == N_EXAMPLES_PER_CLASS
                k == BATCH_OFFSET
            IN  /\ class_bbs'[name] = TakeLast(acc, Min(n, Len(acc)))
                /\ Len(MatchingImages(name)) >= n * (k + 1)
                   => OdKeySeq(class_bbs'[name]) =
                        SubSeq(MatchingImages(name), k * n + 1, (k + 1) * n)]_vars

\* C6, C7 and C8 fail for a quota of 0 only: each holds of every run with a
\* positive quota.
C6_HoldsForPositiveQuota ==
    N_EXAMPLES_PER_CLASS >= 1 => C6_AtMostNImagesPerClass

C7_HoldsForPositiveQuota ==
    N_EXAMPLES_PER_CLASS >= 1 => C7_QuotaMet

C8_HoldsForPositiveQuota ==
    [][(N_EXAMPLES_PER_CLASS >= 1 /\ cpc = "stream" /\ cpc' = "done") =>
        \A name \in DOMAIN class_bbs :
            LET acc == class_bbs[name]
                n == N_EXAMPLES_PER_CLASS
                k == BATCH_OFFSET
            IN  /\ class_bbs'[name] = TakeLast(acc, Min(n, Len(acc)))
                /\ Len(MatchingImages(name)) >= n * (k + 1)
                   => OdKeySeq(class_bbs'[name]) =
                        SubSeq(MatchingImages(name), k * n + 1, (k + 1) * n)]_vars

\* C9: a run with another BATCH_OFFSET on the same stream, class id sets,
\* exclusion set and quota is allocated different images: the key sets of the
\* two merged outputs are disjoint.  The claim is stated here on the inputs
\* most favourable to it: a positive quota, and a stream that holds, for every
\* class, all the matching images that the larger of the two offsets asks for.
C9_OffsetsAllocateDisjointImages ==
    (cpc = "done" /\ N_EXAMPLES_PER_CLASS >= 1) =>
        \A k \in (0..MaxOffset) \ {BATCH_OFFSET} :
            (\A name \in DOMAIN class_bbs :
                /\ Len(MatchingImages(name)) >= n_images_needed(N_EXAMPLES_PER_CLASS, k)
                /\ Len(MatchingImages(name)) >=
                      n_images_needed(N_EXAMPLES_PER_CLASS, BATCH_OFFSET))
            => OdKeys(bbs) \cap
               OdKeys(CollectorRun(CLASS_NAMES, class_id_sets, N_EXAMPLES_PER_CLASS,
                                   k, annotations)) = {}

\* C10 as stated: once every class is at capacity no further row is read.
C10_StreamingHaltsEarly ==
    [][(cpc = "stream" /\ unfilled_class_names = {}) => rows_read' = rows_read]_vars

\* C10, amended: once every class is at capacity the remaining rows are still
\* read, to the end of the file, but none of them changes a class's groups or
\* the set of unfilled classes.
C10_LaterRowsChangeNothing ==
    [][(cpc = "stream" /\ unfilled_class_names = {}) =>
        /\ cpc' = "stream" =>
              /\ rows_read' = rows_read + 1
              /\ class_bbs' = class_bbs
              /\ unfilled_class_names' = unfilled_class_names
        /\ cpc' = "done" => rows_read = Len(annotations)]_vars

\* Every class is at capacity and the row just read is a matching row of a
\* new non-excluded image for a class that accumulated images.
C10_Witness ==
    /\ cpc = "stream"
    /\ unfilled_class_names = {}
    /\ N_EXAMPLES_PER_CLASS >= 1
    /\ rows_read >= 2
    /\ \E name \in DOMAIN class_bbs :
          /\ RowMatches(rows_read, name)
          /\ class_bbs[name] # <<>>
          /\ annotations[rows_read].img_id \notin OdKeys(class_bbs[name])
          /\ \E j \in 1..(rows_read - 1) :
                /\ RowMatches(j, name)
                /\ \A c \in DOMAIN class_bbs :
                      Cardinality({x \in FirstMatchRows(c) : x <= j}) >=
                      n_images_needed(N_EXAMPLES_PER_CLASS, BATCH_OFFSET)

\* The classes that have accumulated fewer images than the capacity.
BelowCapacity ==
    {name \in DOMAIN class_bbs :
        Len(class_bbs[name]) < n_images_needed(N_EXAMPLES_PER_CLASS, BATCH_OFFSET)}

\* C11: when the stream ends with classes below capacity, the cell does not
\* fail: it goes on to its end, the warning names exactly the classes below
\* capacity, and what each class collected is trimmed and merged into the
\* output.
C11_QuotaUnmetIsNonFatal ==
    [][(cpc = "stream" /\ rows_read = Len(annotations) /\ BelowCapacity # {}) =>
        /\ cpc' = "done"
        /\ {w[1] : w \in warning'} = BelowCapacity
        /\ \A name \in DOMAIN class_bbs :
              LET kept == TakeLast(class_bbs[name],
                                   Min(N_EXAMPLES_PER_CLASS, Len(class_bbs[name])))
              IN  /\ class_bbs'[name] = kept
                  /\ \A img \in OdKeys(kept) : img \in OdKeys(bbs')]_vars

\* A finished run that warned about one class while another class was at
\* capacity, with images of the warned class in the output.
C11_Witness ==
    /\ cpc = "done"
    /\ N_EXAMPLES_PER_CLASS >= 1
    /\ \E short, full \in DOMAIN class_bbs :
          /\ short \in {w[1] : w \in warning}
          /\ full \notin {w[1] : w \in warning}
          /\ Len(MatchingImages(short)) >= 1
          /\ Len(MatchingImages(short)) <
                n_images_needed(N_EXAMPLES_PER_CLASS, BATCH_OFFSET)
          /\ Len(MatchingImages(full)) >=
                n_images_needed(N_EXAMPLES_PER_CLASS, BATCH_OFFSET)
          /\ ImagesOfClass(bbs, short) # {}

\* C12 as stated: the number the warning reports for a class is its shortfall,
\* the number of images by which it fell short of the capacity.
C12_WarningReportsShortfall ==
    cpc = "done" =>
        \A w \in warning :
            w[2] = n_images_needed(N_EXAMPLES_PER_CLASS, BATCH_OFFSET)
                   - Len(MatchingImages(w[1]))

\* C12, amended: the number the warning reports for a class is the number of
\* distinct images found for it, one line per class.
C12_WarningReportsImagesFound ==
    cpc = "done" =>
        /\ \A w \in warning : w[2] = Len(MatchingImages(w[1]))
        /\ \A v, w \in warning : v[1] = w[1] => v = w

\* A warning about a class for which 1 image of the 4 needed was found.
C12_Witness ==
    /\ cpc = "done"
    /\ \E w \in warning :
          /\ w[2] = 1
          /\ Len(MatchingImages(w[1])) = 1
          /\ n_images_needed(N_EXAMPLES_PER_CLASS, BATCH_OFFSET) = 4

\* The boxes the classes names[1], names[2], ... kept for img, in that order.
RECURSIVE KeptBoxes(_, _)
KeptBoxes(img, names) ==
    IF names = <<>> THEN <<>>
    ELSE OdGet(class_bbs[Head(names)], img) \o KeptBoxes(img, Tail(names))

\* C13: the keys of the merged mapping are the union of the image ids the
\* classes kept, each once; the value of an image is the concatenation, in
\* class order, of the boxes each class kept for it; n_images is the number of
\* distinct keys.
C13_MergeOfKeptGroups ==
    cpc = "done" =>
        /\ OdKeys(bbs) = UNION {OdKeys(class_bbs[c]) : c \in DOMAIN class_bbs}
        /\ \A i, j \in DOMAIN bbs : bbs[i].img_id = bbs[j].img_id => i = j
        /\ \A img \in OdKeys(bbs) : OdGet(bbs, img) = KeptBoxes(img, CLASS_NAMES)
        /\ n_images = Cardinality(OdKeys(bbs))

\* A finished run in which two classes kept the same image and one of them
\* another image as well.
C13_Witness ==
    /\ cpc = "done"
    /\ n_images = 2
    /\ \E img \in OdKeys(bbs) :
          /\ img \in OdKeys(class_bbs[Boot])
          /\ Cat \in DOMAIN class_bbs
          /\ img \in OdKeys(class_bbs[Cat])
          /\ Len(OdGet(bbs, img)) >= 2

\* C17: for N >= 1, while rows are streamed no class holds more than
\* N * (offset + 1) images, the classes still tested are exactly the classes
\* below capacity, and a row leaves the group of every class at capacity as it
\* was.
C17_CapacityInvariant ==
    [][(N_EXAMPLES_PER_CLASS >= 1 /\ cpc = "stream") =>
        LET needed == n_images_needed(N_EXAMPLES_PER_CLASS, BATCH_OFFSET)
        IN  /\ \A name \in DOMAIN class_bbs : Len(class_bbs[name]) <= needed
            /\ unfilled_class_names = BelowCapacity
            /\ cpc' = "stream" =>
                  /\ \A name \in DOMAIN class_bbs :
                        /\ Len(class_bbs'[name]) <= needed
                        /\ Len(class_bbs[name]) >= needed =>
                              class_bbs'[name] = class_bbs[name]
                  /\ unfilled_class_names' \subseteq unfilled_class_names]_vars

\* A class at capacity has been offered a matching row of an image it does not
\* hold, and a matching row of an image it holds.
C17_Witness ==
    /\ cpc = "stream"
    /\ N_EXAMPLES_PER_CLASS >= 1
    /\ \E name \in DOMAIN class_bbs :
          /\ Len(class_bbs[name]) = n_images_needed(N_EXAMPLES_PER_CLASS, BATCH_OFFSET)
          /\ \E i \in 1..rows_read :
                /\ RowMatches(i, name)
                /\ annotations[i].img_id \notin OdKeys(class_bbs[name])
          /\ \E i \in 1..rows_read :
                /\ RowMatches(i, name)
                /\ annotations[i].img_id \in OdKeys(class_bbs[name])
                /\ \A b \in Range(OdGet(class_bbs[name], annotations[i].img_id)) : b[2] # i

\* The numbers of the rows the boxes of a group entry were taken from.
BoxRows(entry) == [b \in DOMAIN entry.boxes |-> entry.boxes[b][2]]

\* C19: the rows are read one at a time in file order; in each class's group
\* the images are listed in the order of their first matching non-excluded
\* rows, and the boxes of an image in the order of their rows.
C19_CollectorOrdering ==
    [][cpc = "stream" =>
        /\ \A name \in DOMAIN class_bbs :
              LET od == class_bbs[name]
              IN  /\ Len(od) <= Len(MatchingImages(name))
                  /\ OdKeySeq(od) = SubSeq(MatchingImages(name), 1, Len(od))
                  /\ \A e \in DOMAIN od :
                        LET rws == BoxRows(od[e])
                        IN  /\ rws # <<>>
                            /\ rws[1] = SortedRows(FirstMatchRows(name))[e]
                            /\ \A b \in DOMAIN rws :
                                  /\ rws[b] \in 1..rows_read
                                  /\ RowMatches(rws[b], name)
                                  /\ annotations[rws[b]].img_id = od[e].img_id
                                  /\ od[e].boxes[b][1] = name
                            /\ \A a, b \in DOMAIN rws : a < b => rws[a] < rws[b]
        /\ cpc' = "stream" =>
              /\ rows_read' = rows_read + 1
              /\ \A name \in DOMAIN class_bbs :
                    \/ class_bbs'[name] = class_bbs[name]
                    \/ /\ RowMatches(rows_read', name)
                       /\ LET img == annotations[rows_read'].img_id
                          IN  class_bbs'[name] =
                                 OdPut(class_bbs[name], img,
                                       Append(OdGet(class_bbs[name], img),
                                              <<name, rows_read'>>))]_vars

\* Boot holds two images, the first with boxes of rows 1 and 3 and the second
\* with the box of row 2.
C19_Witness ==
    /\ cpc = "stream"
    /\ rows_read = 3
    /\ Len(class_bbs[Boot]) = 2
    /\ BoxRows(class_bbs[Boot][1]) = <<1, 3>>
    /\ BoxRows(class_bbs[Boot][2]) = <<2>>

IsPrefix(p, q) == Len(p) <= Len(q) /\ p = SubSeq(q, 1, Len(p))

\* The image ids name has accumulated, before trimming, after the rows read
\* so far when the same cell is run with batch offset k.
AccumulatedAtOffset(name, k) ==
    OdKeySeq(StreamRows([class_bbs |-> [c \in DOMAIN class_id_sets |-> <<>>],
                         unfilled_class_names |-> Range(CLASS_NAMES)],
                        SubSeq(annotations, 1, rows_read),
                        CLASS_NAMES, class_id_sets,
                        n_images_needed(N_EXAMPLES_PER_CLASS, k)).class_bbs[name])

\* C20: for the same stream, id sets, exclusion set and N, the image ids a
\* class has accumulated before trimming at offset k are a prefix of those it
\* has accumulated at offset k + 1.
C20_OffsetPrefix ==
    cpc = "stream" =>
        \A name \in DOMAIN class_bbs :
            /\ IsPrefix(OdKeySeq(class_bbs[name]),
                        AccumulatedAtOffset(name, BATCH_OFFSET + 1))
            /\ BATCH_OFFSET >= 1 =>
                  IsPrefix(AccumulatedAtOffset(name, BATCH_OFFSET - 1),
                           OdKeySeq(class_bbs[name]))

\* The stream has ended with a class full at offset k that holds one more
\* image at offset k + 1.
C20_Witness ==
    /\ cpc = "stream"
    /\ rows_read = Len(annotations)
    /\ N_EXAMPLES_PER_CLASS >= 1
    /\ \E name \in DOMAIN class_bbs :
          /\ Len(class_bbs[name]) = n_images_needed(N_EXAMPLES_PER_CLASS, BATCH_OFFSET)
          /\ Len(AccumulatedAtOffset(name, BATCH_OFFSET + 1)) > Len(class_bbs[name])

\* The earliest row of the table whose display name equals name ignoring case.
EarliestMatchingRow(name) ==
    CHOOSE i \in MatchingTableRows(name) : \A j \in MatchingTableRows(name) : i <= j

\* C18: when several rows of the table match a requested name ignoring case,
\* the name has the label_id of the earliest of them from the moment that row
\* is scanned, through every later matching row, and when the resolver
\* returns.
C18_FirstMatchWins ==
    \A s \in Range(CLASS_NAMES) :
        Cardinality(MatchingTableRows(s)) >= 2 =>
            LET first == EarliestMatchingRow(s)
            IN  (rows_scanned >= first \/ rpc = "done") =>
                    class_root_ids[s] = descriptions[first][1]

\* C18 fails only when two requested names differ by letter case alone.
C18_HoldsForCaseDistinctNames == CaseDistinctNames => C18_FirstMatchWins

\* A name with two matching rows carrying different ids, both scanned.
C18_SeveralRowsScanned ==
    /\ CaseDistinctNames
    /\ \E s \in Range(CLASS_NAMES) :
          \E i, j \in MatchingTableRows(s) :
              /\ i < j
              /\ j <= rows_scanned
              /\ descriptions[i][1] # descriptions[j][1]
              /\ class_root_ids[s] = descriptions[i][1]

(***************************************************************************)
(* Properties of the shuffle and split.                                    *)
(***************************************************************************)
\* The number of positions of l that hold r.
Count(r, l) == Cardinality({i \in DOMAIN l : l[i] = r})

\* C14: the shuffle leaves the combined manifest with the same records, each
\* as many times as before; the training partition is the first round(0.8 n)
\* records of the shuffled order and the validation partition the rest; each
\* record is in exactly one partition and the two counts add up to n.
C14_ShuffleAndSplit ==
    [][(spc = "ready" /\ spc' = "done") =>
        LET before == combined_manifest_data
            after == combined_manifest_data'
            n == Len(before)
        IN  /\ Len(after) = n
            /\ \A r \in Range(before) \cup Range(after) : Count(r, after) = Count(r, before)
            /\ \E k \in 0..n :
                  /\ 10 * k - 8 * n \in (0 - 4)..4
                  /\ train_data' = SubSeq(after, 1, k)
                  /\ validation_data' = SubSeq(after, k + 1, n)
                  /\ n_samples_training' = k
                  /\ n_samples_validation' = n - k
            /\ \A r \in Range(before) :
                  Count(r, train_data') + Count(r, validation_data') = Count(r, before)
            /\ n_samples_training' + n_samples_validation' = n]_vars

\* Five records, two of them equal, split into four and one.
C14_Witness ==
    /\ spc = "done"
    /\ Len(combined_manifest_data) = 5
    /\ n_samples_training = 4
    /\ n_samples_validation = 1
    /\ validation_data = <<combined_manifest_data[5]>>
    /\ \E i, j \in DOMAIN train_data : i # j /\ train_data[i] = train_data[j]

(***************************************************************************)
(* Properties of the manifest consolidation.                               *)
(***************************************************************************)
\* The combined list has been assigned.
CombinedBuilt ==
    /\ kpc \in {"done", "raised"}
    /\ jobs_loaded = Len(annotation_jobs)

\* The number of lines of the manifests of the jobs before job j.
RECURSIVE LinesBefore(_)
LinesBefore(j) ==
    IF j = 1 THEN 0 ELSE LinesBefore(j - 1) + Len(annotation_jobs[j - 1].manifest)

\* C15: the combined list holds every line of every job's manifest, job after
\* job and in file order within a job, so its length is the sum of the
\* manifests' lengths; each combined record has under "labels" what its line
\* had under the job's label_name, has no longer the label_name key when that
\* differs from "labels", and is otherwise the line.
C15_ManifestConsolidation ==
    CombinedBuilt =>
        /\ Len(combined_manifest_data) = LinesBefore(Len(annotation_jobs) + 1)
        /\ \A j \in DOMAIN annotation_jobs :
              \A i \in DOMAIN annotation_jobs[j].manifest :
                  LET line == annotation_jobs[j].manifest[i]
                      label_name == annotation_jobs[j].label_name
                      datum == combined_manifest_data[LinesBefore(j) + i]
                  IN  /\ "labels" \in DOMAIN datum
                      /\ datum["labels"] = line[label_name]
                      /\ label_name # "labels" => label_name \notin DOMAIN datum
                      /\ DOMAIN datum = (DOMAIN line \ {label_name}) \cup {"labels"}
                      /\ \A k \in DOMAIN line \ {label_name} : datum[k] = line[k]

\* Two jobs with different label names, of two lines and one line, combined.
C15_Witness ==
    /\ kpc = "done"
    /\ Len(annotation_jobs) = 2
    /\ annotation_jobs[1].label_name # "labels"
    /\ annotation_jobs[2].label_name = "labels"
    /\ Len(annotation_jobs[1].manifest) = 2
    /\ Len(annotation_jobs[2].manifest) = 1
    /\ Len(combined_manifest_data) = 3

(***************************************************************************)
(* Properties of the deploy and clean-up cells.                            *)
(***************************************************************************)
\* The endpoints of a configuration, in the order they were deployed.
EndpointsOf(config) == SelectSeq(endpoints, LAMBDA e : e.config = config)

\* The clean-up cell has just run, after executions of the deploy cell only.
FirstCleanUpDone ==
    /\ cells_run # <<>>
    /\ cells_run[Len(cells_run)] = "clean_up"
    /\ \A i \in 1..(Len(cells_run) - 1) : cells_run[i] # "clean_up"

\* C16: when the clean-up cell has run after any sequence of executions of the
\* deploy cell, it has ended without an exception and, for the HPO and the
\* non-HPO configuration alike, the endpoint deployed last is deleted.
C16_CleanUpDeletesLatestEndpoints ==
    FirstCleanUpDone =>
        /\ ~raised
        /\ \A config \in {"hpo", "std"} :
              LET deployed == EndpointsOf(config)
              IN  deployed # <<>> => ~deployed[Len(deployed)].live

\* Both configurations were deployed, one of them twice, then cleaned up.
C16_Witness ==
    /\ cells_run = <<"deploy_hpo", "deploy_std", "deploy_hpo", "clean_up">>
    /\ Len(EndpointsOf("hpo")) = 2
    /\ Len(EndpointsOf("std")) = 1
    /\ Len(delete_calls) = 3

(***************************************************************************)
(* Further properties of the Taxonomy Resolver.                            *)
(***************************************************************************)
\* Every requested name has a matching row among the first r rows.
AllMatchedBy(r) ==
    \A s \in Range(CLASS_NAMES) : \E i \in MatchingTableRows(s) : i <= r

\* The row that matches the last outstanding name; the last row of the table
\* when some name stays outstanding.
StopRow ==
    IF AllMatchedBy(Len(descriptions))
    THEN CHOOSE r \in 0..Len(descriptions) :
            AllMatchedBy(r) /\ \A q \in 0..(r - 1) : ~AllMatchedBy(q)
    ELSE Len(descriptions)

\* The mapping the loop builds when it reads every row of rows, never leaving
\* early.
RECURSIVE WholeTableScan(_, _, _)
WholeTableScan(ids, notfound, rows) ==
    IF rows = <<>> THEN ids
    ELSE LET k == Lower(Head(rows)[2])
         IN  IF k \in DOMAIN notfound
             THEN WholeTableScan(Resolve(ids, notfound[k], Head(rows)),
                                 DictDel(notfound, k), Tail(rows))
             ELSE WholeTableScan(ids, notfound, Tail(rows))

\* C21: the table is read one row at a time in order, each row once; reading
\* stops at the row that matches the last outstanding name, no later row is
\* read; and the mapping the resolver ends with is the one a scan of the whole
\* table gives.
C21_EarlyStop ==
    [][/\ rows_scanned' # rows_scanned =>
             /\ rows_scanned' = rows_scanned + 1
             /\ \A s \in DOMAIN class_root_ids :
                   class_root_ids'[s] # class_root_ids[s] =>
                       /\ class_root_ids'[s] = descriptions[rows_scanned'][1]
                       /\ Lower(descriptions[rows_scanned'][2]) = Lower(s)
       /\ rows_scanned' <= StopRow
       /\ rpc' \in {"done", "raised"} =>
             /\ rows_scanned' = StopRow
             /\ class_root_ids' =
                   WholeTableScan(InitialRootIds(CLASS_NAMES),
                                  InitialNotFound(CLASS_NAMES), descriptions)]_vars

\* The resolver returned before the end of the table, and a row it did not
\* read matches a requested name with another id than the one returned.
C21_Witness ==
    /\ rpc = "done"
    /\ rows_scanned < Len(descriptions)
    /\ \E s \in Range(CLASS_NAMES) :
          \E i \in MatchingTableRows(s) :
              /\ i > rows_scanned
              /\ class_root_ids[s] # None
              /\ descriptions[i][1] # class_root_ids[s]

\* C23: whenever the resolver completes without raising, every requested name
\* maps to a label_id, none to None.
C23_NoNullAfterSuccess ==
    rpc = "done" => \A s \in Range(CLASS_NAMES) : class_root_ids[s] # None

\* C23 fails only when two requested names differ by letter case alone.
C23_HoldsForCaseDistinctNames == CaseDistinctNames => C23_NoNullAfterSuccess

(***************************************************************************)
(* Further properties of the collector.                                    *)
(***************************************************************************)
\* C22: whatever the order in which a row's unfilled classes are visited, the
\* row leaves the same class groups and the same set of unfilled classes; and
\* the merged output of a finished run is a function of the inputs alone.
C22_VisitOrderIrrelevant ==
    [][/\ (cpc = "stream" /\ cpc' = "stream") =>
             \A order \in VisitOrders(unfilled_class_names) :
                 LET st == ProcessRow([class_bbs |-> class_bbs,
                                       unfilled_class_names |-> unfilled_class_names],
                                      annotations[rows_read + 1], order, class_id_sets,
                                      n_images_needed(N_EXAMPLES_PER_CLASS, BATCH_OFFSET))
                 IN  /\ class_bbs' = st.class_bbs
                     /\ unfilled_class_names' = st.unfilled_class_names
       /\ cpc' = "done" =>
             bbs' = CollectorRun(CLASS_NAMES, class_id_sets, N_EXAMPLES_PER_CLASS,
                                 BATCH_OFFSET, annotations)]_vars

\* One row has given a box to each of two classes, both unfilled before it.
C22_Witness ==
    /\ cpc = "stream"
    /\ Cat \in DOMAIN class_bbs
    /\ \E r \in 1..rows_read :
          /\ \E e \in DOMAIN class_bbs[Boot] :
                class_bbs[Boot][e].boxes[Len(class_bbs[Boot][e].boxes)][2] = r
          /\ \E e \in DOMAIN class_bbs[Cat] :
                class_bbs[Cat][e].boxes[Len(class_bbs[Cat][e].boxes)][2] = r

\* The boxes of an ordered dict, one after the other.
RECURSIVE FlattenBoxes(_)
FlattenBoxes(od) ==
    IF od = <<>> THEN <<>> ELSE Head(od).boxes \o FlattenBoxes(Tail(od))

\* Every box of od is the box of a row read, not excluded, of the image it is
\* stored under and with a label of the id set of the class it is tagged
\* with; and no row gave the same class two boxes.
SoundBoxes(od) ==
    /\ \A e \in DOMAIN od :
          \A b \in DOMAIN od[e].boxes :
              LET box == od[e].boxes[b]
              IN  /\ box[1] \in DOMAIN class_id_sets
                  /\ box[2] \in 1..rows_read
                  /\ RowMatches(box[2], box[1])
                  /\ annotations[box[2]].img_id = od[e].img_id
    /\ \A box \in Range(FlattenBoxes(od)) : Count(box, FlattenBoxes(od)) = 1

BoxesSound ==
    /\ \A name \in DOMAIN class_bbs :
          /\ SoundBoxes(class_bbs[name])
          /\ \A box \in Range(FlattenBoxes(class_bbs[name])) : box[1] = name
    /\ SoundBoxes(bbs)

\* C24: every box of a class group and of the merged output comes from one
\* non-excluded row read, of the image it is stored under, whose label is in
\* the id set of the class it is tagged with; and a row whose label is in the
\* id sets of several unfilled classes gives one box to each of them.
C24_BoxSoundness ==
    [][/\ BoxesSound'
       /\ (cpc = "stream" /\ cpc' = "stream") =>
             \A name \in DOMAIN class_bbs :
                 IF name \in unfilled_class_names /\ RowMatches(rows_read', name)
                 THEN /\ Count(<<name, rows_read'>>, FlattenBoxes(class_bbs'[name])) = 1
                      /\ Len(FlattenBoxes(class_bbs'[name])) =
                            Len(FlattenBoxes(class_bbs[name])) + 1
                 ELSE class_bbs'[name] = class_bbs[name]]_vars

\* A finished run whose output holds, under one image, the boxes that one row
\* gave to two classes.
C24_Witness ==
    /\ cpc = "done"
    /\ \E e \in DOMAIN bbs :
          \E r \in 1..rows_read :
              /\ <<Boot, r>> \in Range(bbs[e].boxes)
              /\ <<Cat, r>> \in Range(bbs[e].boxes)

\* The row at which name reaches capacity, for a class that reaches it.
FillRow(name) ==
    SortedRows(FirstMatchRows(name))[n_images_needed(N_EXAMPLES_PER_CLASS, BATCH_OFFSET)]

ReachesCapacity(name) ==
    Len(MatchingImages(name)) >= n_images_needed(N_EXAMPLES_PER_CLASS, BATCH_OFFSET)

\* The boxes tagged name that the merged output holds for img.
BoxesOfClass(img, name) == SelectSeq(OdGet(bbs, img), LAMBDA b : b[1] = name)

\* The boxes of the rows of S for name, in file order.
BoxesOfRows(S, name) == [k \in 1..Cardinality(S) |-> <<name, SortedRows(S)[k]>>]

\* C25: for N >= 1, in the output of a run in which a class reached capacity,
\* the image whose first matching row filled the capacity carries exactly one
\* box of the class, the box of that row; every other kept image of the class
\* carries the boxes of all its matching rows before that row.
C25_TruncatedLastImage ==
    (cpc = "done" /\ N_EXAMPLES_PER_CLASS >= 1) =>
        \A name \in DOMAIN class_bbs :
            ReachesCapacity(name) =>
                LET fill == FillRow(name)
                    last == annotations[fill].img_id
                IN  /\ last \in OdKeys(class_bbs[name])
                    /\ BoxesOfClass(last, name) = <<<<name, fill>>>>
                    /\ \A img \in OdKeys(class_bbs[name]) \ {last} :
                          BoxesOfClass(img, name) =
                              BoxesOfRows({r \in 1..(fill - 1) :
                                              /\ RowMatches(r, name)
                                              /\ annotations[r].img_id = img}, name)

\* A finished run in which a class kept two images and a row after the one
\* that filled the capacity matches the last image and the class.
C25_Witness ==
    /\ cpc = "done"
    /\ N_EXAMPLES_PER_CLASS >= 1
    /\ \E name \in DOMAIN class_bbs :
          /\ ReachesCapacity(name)
          /\ Len(class_bbs[name]) >= 2
          /\ \E r \in DOMAIN annotations :
                /\ r > FillRow(name)
                /\ RowMatches(r, name)
                /\ annotations[r].img_id = annotations[FillRow(name)].img_id

\* The group name has accumulated after the rows read so far when it is the
\* only class requested.
AloneAccumulated(name) ==
    StreamRows([class_bbs |-> [c \in {name} |-> <<>>],
                unfilled_class_names |-> {name}],
               SubSeq(annotations, 1, rows_read), <<name>>,
               [c \in {name} |-> class_id_sets[name]],
               n_images_needed(N_EXAMPLES_PER_CLASS, BATCH_OFFSET)).class_bbs[name]

\* C26: the group of a class, while rows are streamed and as kept at the end,
\* is the group the class has when it is requested alone with the same id
\* set, quota, offset, exclusion set and stream: the other classes requested,
\* and whether they are full, make no difference.
C26_ClassIndependence ==
    \A name \in DOMAIN class_bbs :
        /\ cpc = "stream" => class_bbs[name] = AloneAccumulated(name)
        /\ cpc = "done" =>
              class_bbs[name] = LastN(AloneAccumulated(name), N_EXAMPLES_PER_CLASS)

\* A finished run of two classes in which one class kept an image first seen
\* after the other class had reached capacity.
C26_Witness ==
    /\ cpc = "done"
    /\ N_EXAMPLES_PER_CLASS >= 1
    /\ \E full, other \in DOMAIN class_bbs :
          /\ full # other
          /\ ReachesCapacity(full)
          /\ \E e \in DOMAIN class_bbs[other] :
                class_bbs[other][e].boxes[1][2] > FillRow(full)

\* The endpoints of a configuration that are live.
LiveEndpoints(eps, config) == {i \in DOMAIN eps : eps[i].config = config /\ eps[i].live}

C28_NoDoubleDelete ==
    \A i, j \in DOMAIN delete_calls : delete_calls[i] = delete_calls[j] => i = j

(***************************************************************************)
(* Further properties of the split.                                        *)
(***************************************************************************)
\* C29: when the split has run on a combined manifest of at least one record,
\* n_samples_training and n_samples_validation are both non-zero.
C29_BothPartitionsNonEmpty ==
    (spc = "done" /\ Len(combined_manifest_data) >= 1) =>
        /\ n_samples_training # 0
        /\ n_samples_validation # 0

\* C29 fails for one and two records only: from three records on, both
\* partitions are non-empty.
C29_HoldsFromThreeRecords ==
    Len(combined_manifest_data) >= 3 => C29_BothPartitionsNonEmpty
====
